---- MODULE Spec2Model ----
(***************************************************************************)
(* Model of the MLOps challenge repository:                                *)
(*   ejercicio2/src/models/model_registry.py   ModelRegistry               *)
(*   ejercicio2/src/main.py                    /predict handler            *)
(*   ejercicio3/metrics/model_metrics.py       ModelMetrics, middleware    *)
(*   ejercicio1/scripts/compliance_checker.py  S3ComplianceChecker         *)
(***************************************************************************)
EXTENDS Integers, Sequences, FiniteSets, TLC

VARIABLES
    \* ---- model registry (ejercicio2) ----
    phase,       \* "new" before ModelRegistry.__init__ ran, "ready" after
    dirExists,   \* whether models_dir exists on disk
    dir,         \* models_dir: file stem -> artifact (the .pkl and its .json)
    models,      \* self.models, a dict in insertion order: Seq of <<key, value>>
    metadata,    \* self.metadata, a dict in insertion order
    heap,        \* the list objects held by metadata['features']: id -> contents
    now,         \* the wall clock read by datetime.now()
    ret,         \* the last operation: its arguments, what it returned and printed
    steps,       \* check_for_new_models calls and directory changes so far
    listing,     \* the list a caller holds from get_available_models
    resp,        \* the last /predict request and its response
    scan,        \* the check_for_new_models call in progress, statement by statement
    \* ---- metrics (ejercicio3) ----
    metrics,     \* the ModelMetrics object: its counters, histograms and gauges
    callers,     \* the threads inside record_prediction: where each one is
    inflight,    \* the HTTP requests inside MetricsMiddleware.__call__
    mlast,       \* the last call on the metrics object
    calls,       \* calls made on the metrics object, requests received
    \* ---- compliance checker (ejercicio1) ----
    bucket,      \* the S3 bucket's encryption, public-access-block and policy
    access,      \* which S3 calls the credentials may make
    checker,     \* the S3ComplianceChecker object and where main() is in it
    report       \* what the run returned, printed and wrote so far

regVars == <<phase, dirExists, dir, models, metadata, heap, now, ret, steps,
             listing, resp, scan>>

metVars == <<metrics, callers, inflight, mlast, calls>>

s3Vars == <<bucket, access, checker, report>>

vars == <<regVars, metVars, s3Vars>>

(***************************************************************************)
(* Bounds of the model.                                                    *)
(***************************************************************************)
MaxSteps == 2       \* directory changes and refreshes after construction
MaxCalls == 3       \* calls on the metrics object / requests through the middleware
MaxCallers == 2     \* threads calling record_prediction at the same time

(***************************************************************************)
(* Python dicts keep insertion order; a dict is a sequence of <<k, v>>.    *)
(***************************************************************************)
DictKeys(d) == {d[i][1] : i \in 1..Len(d)}

DictHas(d, k) == \E i \in 1..Len(d) : d[i][1] = k

DictGet(d, k) == d[CHOOSE i \in 1..Len(d) : d[i][1] = k][2]

\* d[k] = v: an existing key keeps its position, a new key goes last
DictSet(d, k, v) ==
    IF DictHas(d, k)
    THEN [i \in 1..Len(d) |-> IF d[i][1] = k THEN <<k, v>> ELSE d[i]]
    ELSE Append(d, <<k, v>>)

(***************************************************************************)
(* Timestamps.  A loaded_at is text; Python compares str values character  *)
(* by character.  Text is a sequence of digits here.  datetime.isoformat() *)
(* pads every field; a metadata file may hold any text, or a JSON number.  *)
(***************************************************************************)
IsoFormat(t) == <<t \div 10, t % 10>>

ShortFormat(t) == IF t < 10 THEN <<t>> ELSE <<t \div 10, t % 10>>

\* a < b for two str values
RECURSIVE StrLess(_, _)
StrLess(a, b) ==
    IF a = <<>> THEN b # <<>>
    ELSE IF b = <<>> THEN FALSE
    ELSE IF Head(a) # Head(b) THEN Head(a) < Head(b)
    ELSE StrLess(Tail(a), Tail(b))

\* A loaded_at value: kind "str" (text), "num" (a JSON number) or "none"
\* (key absent); time is the instant the value denotes (-1 when it denotes none).
NoStamp == [kind |-> "none", text |-> <<>>, time |-> 0 - 1]

StrStamp(txt, t) == [kind |-> "str", text |-> txt, time |-> t]

NumStamp(t) == [kind |-> "num", text |-> <<>>, time |-> t]

FileStamps ==
    {NoStamp, NumStamp(10)}
        \cup {StrStamp(ShortFormat(t), t) : t \in {9, 10}}

(***************************************************************************)
(* The directory.  A file stem names <stem>.pkl and, when present,         *)
(* <stem>.json.                                                            *)
(***************************************************************************)
Stems == {"v1", "v2"}

NoRef == 0

\* pkl:  "absent" no such file, "corrupt" pickle.load raises, "ok"
\* meta: "none" no .json, "malformed" json.load raises, "noversion" no
\*       'version' key, "unhashable" version is a JSON list, "ok"
Artifact(p, m, v, s, f) ==
    [pkl |-> p, meta |-> m, version |-> v, stamp |-> s, features |-> f]

Absent == Artifact("absent", "none", "", NoStamp, <<>>)

\* the 'features' key of a metadata file: <<>> when the key is absent,
\* <<lst>> when it holds the list lst
FeatureOptions == {<<>>, << <<"f1">> >>}

ArtifactsWith(stamps, feats) ==
    {Absent, Artifact("corrupt", "none", "", NoStamp, <<>>),
     Artifact("ok", "none", "", NoStamp, <<>>),
     Artifact("ok", "malformed", "", NoStamp, <<>>),
     Artifact("ok", "noversion", "", NoStamp, <<>>),
     Artifact("ok", "unhashable", "", NoStamp, <<>>)}
        \cup {Artifact("ok", "ok", v, s, f) : v \in Stems, s \in stamps, f \in feats}

\* glob.glob(models_dir/*.pkl): the .pkl files, in no particular order
ModelFiles(d) == {s \in Stems : d[s].pkl # "absent"}

GlobOrders(d) ==
    LET S == ModelFiles(d)
    IN  {o \in [1..Cardinality(S) -> S] : \A i, j \in 1..Cardinality(S) : o[i] = o[j] => i = j}

(***************************************************************************)
(* ModelRegistry._load_models, one artifact at a time.  The registry       *)
(* under construction is a record reg = [models, metadata, heap, loaded,   *)
(* warnings, now].                                                         *)
(***************************************************************************)
Raise == [raised |-> TRUE, value |-> <<>>]

Return(v) == [raised |-> FALSE, value |-> <<v>>]

\* with open(model_file, 'rb') as f: model = pickle.load(f)
PickleLoad(stem, art) == IF art.pkl = "corrupt" THEN Raise ELSE Return(stem)

\* the metadata dict, as parsed or synthesised: verKind says what
\* metadata['version'] is ("missing", "list" or "str")
MetaDict(vk, v, s, f, file) ==
    [verKind |-> vk, version |-> v, stamp |-> s, features |-> f, file |-> file]

\* a faulty variant, for comparison: a .json that does not parse falls back to the default metadata
ReadMetadataLenient(stem, art, t) ==
    IF art.meta \in {"none", "malformed"}
    THEN Return(MetaDict("str", stem, StrStamp(IsoFormat(t), t), <<>>, stem))
    ELSE Return(MetaDict(CASE art.meta = "noversion" -> "missing"
                           [] art.meta = "unhashable" -> "list"
                           [] OTHER -> "str",
                         art.version, art.stamp, art.features, ""))

\* lines 35-45: json.load of <stem>.json, or the default metadata
ReadMetadata(stem, art, t) ==
    IF art.meta = "none"
    THEN Return(MetaDict("str", stem, StrStamp(IsoFormat(t), t), <<>>, stem))
    ELSE IF art.meta = "malformed"
    THEN Raise
    ELSE Return(MetaDict(CASE art.meta = "noversion" -> "missing"
                           [] art.meta = "unhashable" -> "list"
                           [] OTHER -> "str",
                         art.version, art.stamp, art.features, ""))

\* the except clause, line 54-55: one warning, the scan goes on
OnLoadError(reg) == [reg EXCEPT !.warnings = @ + 1]

\* the metadata dict as the registry holds it: its features list is an
\* object of the heap
StoredMeta(md, ref) ==
    [version |-> md.version, stamp |-> md.stamp, features |-> ref, file |-> md.file]

\* self.models[model_id] = model, line 49; the features list parsed from the
\* .json is an object of the heap by then
StoreModel(reg, model, md) ==
    [reg EXCEPT !.models = DictSet(@, md.version, model),
                !.heap = IF md.features # <<>> THEN Append(@, md.features[1]) ELSE @]

\* a faulty variant, for comparison: self.metadata.setdefault(model_id,
\* metadata), which keeps the metadata of an entry that is already there
StoreMetadataKeepFirst(reg, md) ==
    LET ref == IF md.features # <<>> THEN Len(reg.heap) ELSE NoRef
    IN  [reg EXCEPT !.metadata = IF DictHas(@, md.version) THEN @
                                 ELSE DictSet(@, md.version, StoredMeta(md, ref)),
                    !.loaded = @ + 1]

\* self.metadata[model_id] = metadata, line 50, and the print of line 52
StoreMetadata(reg, md) ==
    LET ref == IF md.features # <<>> THEN Len(reg.heap) ELSE NoRef
    IN  [reg EXCEPT !.metadata = DictSet(@, md.version, StoredMeta(md, ref)),
                    !.loaded = @ + 1]

\* lines 47-52: model_id = metadata['version']; both dicts are set; print
Register(reg, model, md) ==
    IF md.verKind = "missing" THEN OnLoadError(reg)          \* KeyError, line 48
    ELSE IF md.verKind = "list" THEN OnLoadError(reg)        \* TypeError, line 49
    ELSE StoreMetadata(StoreModel(reg, model, md), md)

\* datetime.now() was read for the default metadata (line 43): the next
\* reading is later
Tick(reg, art) == IF art.meta = "none" THEN [reg EXCEPT !.now = @ + 1] ELSE reg

\* the body of the for loop, lines 29-55
LoadOne(reg, stem, art) ==
    LET model == PickleLoad(stem, art)
        md    == ReadMetadata(stem, art, reg.now)
    IN  IF model.raised THEN OnLoadError(reg)
        ELSE IF md.raised THEN OnLoadError(reg)
        ELSE Register(Tick(reg, art), model.value[1], md.value[1])

RECURSIVE LoadFiles(_, _, _)
LoadFiles(reg, d, order) ==
    IF order = <<>> THEN reg
    ELSE LoadFiles(LoadOne(reg, Head(order), d[Head(order)]), d, Tail(order))

\* the registry object as a record, with nothing printed yet
Self == [models |-> models, metadata |-> metadata, heap |-> heap,
         loaded |-> 0, warnings |-> 0, now |-> now]

\* a faulty variant, for comparison: the scan rebuilds both dicts from
\* nothing instead of writing into the ones the registry holds
LoadModelsRebuild(order) ==
    IF ~dirExists
    THEN /\ dirExists' = TRUE
         /\ UNCHANGED <<models, metadata, heap, now>>
    ELSE LET reg == LoadFiles([Self EXCEPT !.models = <<>>, !.metadata = <<>>], dir, order)
         IN  /\ models' = reg.models
             /\ metadata' = reg.metadata
             /\ heap' = reg.heap
             /\ now' = reg.now
             /\ UNCHANGED dirExists

\* _load_models, lines 19-55; order is the order glob returned
LoadModels(order) ==
    IF ~dirExists
    THEN /\ dirExists' = TRUE                      \* os.makedirs, return
         /\ UNCHANGED <<models, metadata, heap, now>>
    ELSE LET reg == LoadFiles(Self, dir, order)
         IN  /\ models' = reg.models
             /\ metadata' = reg.metadata
             /\ heap' = reg.heap
             /\ now' = reg.now
             /\ UNCHANGED dirExists

\* the "Modelo cargado" and "Error cargando modelo" lines the scan prints
Printed(order) ==
    IF ~dirExists THEN [loaded |-> 0, warnings |-> 0]
    ELSE LET reg == LoadFiles(Self, dir, order)
         IN  [loaded |-> reg.loaded, warnings |-> reg.warnings]

(***************************************************************************)
(* Lookups.                                                                *)
(***************************************************************************)
None == "None"

NoMeta == [version |-> "", stamp |-> NoStamp, features |-> NoRef, file |-> ""]

\* key=lambda x: x[1].get('loaded_at', ''), line 95
SortKey(md) == IF md.stamp.kind = "none" THEN StrStamp(<<>>, 0 - 1) ELSE md.stamp

\* a < b on two sort keys of the same type
KeyLess(a, b) ==
    IF a.kind = "num" THEN a.time < b.time ELSE StrLess(a.text, b.text)

\* Python raises TypeError when it compares a str with a number; sorting two
\* or more keys of mixed types makes such a comparison
SortRaises(items) ==
    \E i, j \in 1..Len(items) : SortKey(items[i][2]).kind # SortKey(items[j][2]).kind

RemoveAt(seq, i) == SubSeq(seq, 1, i - 1) \o SubSeq(seq, i + 1, Len(seq))

\* sorted(items, key=..., reverse=True): descending and stable, so among
\* equal keys the one first in the dict comes first
RECURSIVE SortedReverse(_)
SortedReverse(items) ==
    IF items = <<>> THEN <<>>
    ELSE LET i == CHOOSE i \in 1..Len(items) :
                      /\ \A j \in 1..Len(items) :
                             ~KeyLess(SortKey(items[i][2]), SortKey(items[j][2]))
                      /\ \A j \in 1..(i - 1) :
                             KeyLess(SortKey(items[j][2]), SortKey(items[i][2]))
         IN  <<items[i]>> \o SortedReverse(RemoveAt(items, i))

\* _get_latest_version, lines 87-99
GetLatestVersion(md) ==
    IF md = <<>> THEN Return(None)
    ELSE IF SortRaises(md) THEN Raise
    ELSE Return(SortedReverse(md)[1][1])

\* What an operation returned: raised (an exception left it), found with
\* model and meta (a lookup hit), grew (check_for_new_models' bool), printed
\* (the lines a scan printed).
NoPrint == [loaded |-> 0, warnings |-> 0]

Result(op, arg, raised, found, model, meta, grew, printed) ==
    [op |-> op, arg |-> arg, raised |-> raised, found |-> found,
     model |-> model, meta |-> meta, grew |-> grew, printed |-> printed]

NoResult(op) == Result(op, None, FALSE, FALSE, "", NoMeta, FALSE, NoPrint)

NotFound(op, arg) == Result(op, arg, FALSE, FALSE, "", NoMeta, FALSE, NoPrint)

Found(op, arg, model, meta) == Result(op, arg, FALSE, TRUE, model, meta, FALSE, NoPrint)

Raised(op, arg) == Result(op, arg, TRUE, FALSE, "", NoMeta, FALSE, NoPrint)

Scanned(op, grew, printed) == Result(op, None, FALSE, FALSE, "", NoMeta, grew, printed)

\* a faulty variant, for comparison: self.models[version] without the membership test of line 75
GetModelUnchecked(ms, md, version) ==
    IF ms = <<>> THEN NotFound("get_model", version)
    ELSE LET latest == GetLatestVersion(md)
             v == IF version = None THEN latest.value[1] ELSE version
         IN  IF version = None /\ latest.raised THEN Raised("get_model", version)
             ELSE IF DictHas(ms, v)
             THEN Found("get_model", version, DictGet(ms, v), DictGet(md, v))
             ELSE Raised("get_model", version)

\* get_model, lines 57-78, on the dicts ms = self.models, md = self.metadata
GetModel(ms, md, version) ==
    IF ms = <<>> THEN NotFound("get_model", version)
    ELSE LET latest == GetLatestVersion(md)
             v == IF version = None THEN latest.value[1] ELSE version
         IN  IF version = None /\ latest.raised THEN Raised("get_model", version)
             ELSE IF DictHas(ms, v)
             THEN IF DictHas(md, v)
                  THEN Found("get_model", version, DictGet(ms, v), DictGet(md, v))
                  ELSE Raised("get_model", version)     \* KeyError, line 76
             ELSE NotFound("get_model", version)

\* get_latest_model, lines 80-85
GetLatestModel(md) ==
    LET latest == GetLatestVersion(md)
    IN  IF latest.raised THEN Raised("get_latest_model", None)
        ELSE IF latest.value[1] # None
        THEN Found("get_latest_model", None, "", DictGet(md, latest.value[1]))
        ELSE NotFound("get_latest_model", None)

(***************************************************************************)
(* get_available_models and what a caller can do with the list it gets.    *)
(* A returned record's features is either a reference to a list object of  *)
(* the heap (ref) or a list only the caller holds (own).                   *)
(***************************************************************************)
\* metadata.get('features', []), line 107: the metadata's own list object
\* when the key is there, a new empty list otherwise
ListedFeatures(md, h) ==
    IF md.features # NoRef
    THEN [ref |-> md.features, own |-> <<>>]
    ELSE [ref |-> NoRef, own |-> <<>>]

\* get_available_models, lines 101-110
GetAvailableModels(md, h) ==
    [i \in 1..Len(md) |->
        [version   |-> md[i][1],
         loaded_at |-> md[i][2].stamp,
         features  |-> ListedFeatures(md[i][2], h)]]

\* the contents of a features value
Contents(f, h) == IF f.ref # NoRef THEN h[f.ref] ELSE f.own

\* what the registry's metadata says, list contents included
MetadataView(md, h) ==
    [i \in 1..Len(md) |->
        <<md[i][1], md[i][2].version, md[i][2].stamp, md[i][2].file,
          IF md[i][2].features # NoRef THEN <<h[md[i][2].features]>> ELSE <<>> >>]

\* what get_available_models would return, list contents included
ListingView(md, h) ==
    LET l == GetAvailableModels(md, h)
    IN  [i \in 1..Len(l) |-> <<l[i].version, l[i].loaded_at, Contents(l[i].features, h)>>]

(***************************************************************************)
(* The /predict handler (ejercicio2/src/main.py, lines 93-192).            *)
(***************************************************************************)
\* A metadata file may give "version" as a JSON number; the registry then
\* holds the number as key, which no request's model_version (a str) equals.
\* The number 2 is written "int:2", and str(2) is "2".
NumberVersion == "int:2"

IsStr(version) == version # NumberVersion

VersionText(version) == IF version = NumberVersion THEN "2" ELSE version

RecordTask(success, version) == [success |-> success, model_version |-> version]

\* what left the try block (a return, an HTTPException, another exception)
\* and the tasks it had added by then
Outcome(exc, status_code, version, model, tasks) ==
    [exc |-> exc, status_code |-> status_code, model_version |-> version,
     model |-> model, tasks |-> tasks]

HTTPException(status_code) == Outcome("HTTPException", status_code, "", "", <<>>)

\* A request: model_version (None or a version), whether building the
\* DataFrame raises, what the model does ("ok", "predict_raises", or
\* "proba_raises": predict_proba exists and raises), and whether the
\* installed pydantic rejects a number for a str field (2.x) or converts
\* it (1.x).
PredictRequest(version, frame, run, strict) ==
    [version |-> version, frame |-> frame, run |-> run, strict |-> strict]

\* PredictionResponse(model_version=metadata['version'], ...), lines 163-168,
\* after the success task was added, lines 150-155
PredictionResponse(req, version, model) ==
    LET added == <<RecordTask(TRUE, version)>>
    IN  IF IsStr(version) THEN Outcome("none", 200, version, model, added)
        ELSE IF req.strict THEN Outcome("Exception", 0, "", "", added)   \* ValidationError
        ELSE Outcome("none", 200, VersionText(version), model, added)

\* the body of the try block, lines 108-168
PredictBody(ms, md, req) ==
    LET got == GetModel(ms, md, req.version)                       \* line 110
    IN  IF got.raised THEN Outcome("Exception", 0, "", "", <<>>)
        ELSE IF ~got.found THEN HTTPException(404)                 \* lines 112-116
        ELSE IF req.frame = "raises" THEN HTTPException(400)       \* lines 119-126
        ELSE IF req.run # "ok" THEN HTTPException(500)             \* lines 129-144
        ELSE PredictionResponse(req, got.meta.version, got.model)  \* lines 146-168

\* model_version or "unknown", lines 176 and 187
OrUnknown(version) == IF version = None \/ version = "" THEN "unknown" ELSE version

Response(req, status_code, version, model, tasks) ==
    [version |-> req.version, frame |-> req.frame, run |-> req.run, strict |-> req.strict,
     status |-> status_code, model_version |-> version, model |-> model, tasks |-> tasks]

\* a faulty variant, for comparison: without the except HTTPException
\* clause every exception reaches except Exception
PredictAllInternal(ms, md, req) ==
    LET out == PredictBody(ms, md, req)
    IN  IF out.exc = "none"
        THEN Response(req, 200, out.model_version, out.model, out.tasks)
        ELSE Response(req, 500, "", "",
                      Append(out.tasks, RecordTask(FALSE, OrUnknown(req.version))))

\* predict, lines 93-192: the try block and its two except clauses
Predict(ms, md, req) ==
    LET out == PredictBody(ms, md, req)
    IN  IF out.exc = "none"
        THEN Response(req, 200, out.model_version, out.model, out.tasks)
        ELSE IF out.exc = "HTTPException"                          \* lines 170-178
        THEN Response(req, out.status_code, "", "",
                      Append(out.tasks, RecordTask(FALSE, OrUnknown(req.version))))
        ELSE Response(req, 500, "", "",                            \* lines 180-192
                      Append(out.tasks, RecordTask(FALSE, OrUnknown(req.version))))

NoResp == Response(PredictRequest(None, "", "", FALSE), 0, "", "", <<>>)

(***************************************************************************)
(* ModelMetrics (ejercicio3/metrics/model_metrics.py).  A labelled metric  *)
(* is a function from its label values to a value; a histogram is the     *)
(* sequence of its per-bucket counts, the last one being +Inf.  Times are  *)
(* whole microseconds, confidences whole percents.                         *)
(***************************************************************************)
MetricVersions == {"v1", "unknown", "health_check"}

FeatureNames == {"f1"}

\* buckets=[0.01, 0.05, 0.1, 0.5, 1.0, 2.0, 5.0] seconds, line 43
LatencyBuckets == <<10000, 50000, 100000, 500000, 1000000, 2000000, 5000000>>

\* buckets=[0.1, 0.3, 0.5, 0.7, 0.9, 1.0], line 67
ConfidenceBuckets == <<10, 30, 50, 70, 90, 100>>

\* buckets=[-10, -5, -2, -1, 0, 1, 2, 5, 10], line 75
FeatureBuckets == <<0 - 10, 0 - 5, 0 - 2, 0 - 1, 0, 1, 2, 5, 10>>

EmptyHistogram(buckets) == [i \in 1..(Len(buckets) + 1) |-> 0]

\* ModelMetrics.__init__, lines 21-83
NewMetrics ==
    [predictions_total     |-> [k \in MetricVersions \X {"success", "error"} |-> 0],
     errors_total          |-> [k \in {"prediction_failed", "middleware_exception"} \X MetricVersions |-> 0],
     inference_latency     |-> [l \in {"v1", "unknown", "api"} |-> EmptyHistogram(LatencyBuckets)],
     active_connections    |-> 0,
     model_memory_usage    |-> [v \in MetricVersions |-> 0],
     cpu_usage             |-> 0,
     prediction_confidence |-> EmptyHistogram(ConfidenceBuckets),
     feature_distribution  |-> [f \in FeatureNames |-> EmptyHistogram(FeatureBuckets)],
     revenue_impact        |-> [v \in MetricVersions |-> 0]]

\* a faulty variant, for comparison: an increment that overwrites, as an unlocked read-add-write
\* does when two threads read the same value
IncLossy(counter, key) == [counter EXCEPT ![key] = 1]

\* Counter.labels(...).inc(): atomic, the client library locks the value
Inc(counter, key) == [counter EXCEPT ![key] = @ + 1]

\* the bucket an observation falls in: the first whose bound is >= value
BucketOf(buckets, value) ==
    IF \E i \in 1..Len(buckets) : value <= buckets[i]
    THEN CHOOSE i \in 1..Len(buckets) :
             /\ value <= buckets[i]
             /\ \A j \in 1..(i - 1) : value > buckets[j]
    ELSE Len(buckets) + 1

\* Histogram.observe(value): atomic as well
Observe(hist, buckets, value) == [hist EXCEPT ![BucketOf(buckets, value)] = @ + 1]

\* inference_time / 1000.0: milliseconds to seconds (held in microseconds)
MsToSeconds(ms) == ms * 1000

PredictionCall(success, inference_time, model_version, confidence) ==
    [success |-> success, inference_time |-> inference_time,
     model_version |-> model_version, confidence |-> confidence]

\* lines 99-105
CountPrediction(m, c) ==
    [m EXCEPT !.predictions_total = Inc(@, <<c.model_version, IF c.success THEN "success" ELSE "error">>)]

\* lines 108-111
ObserveLatency(m, c) ==
    IF c.success
    THEN [m EXCEPT !.inference_latency[c.model_version] =
                       Observe(@, LatencyBuckets, MsToSeconds(c.inference_time))]
    ELSE m

\* lines 113-115; confidence is <<>> for None
ObserveConfidence(m, c) ==
    IF c.success /\ c.confidence # <<>>
    THEN [m EXCEPT !.prediction_confidence = Observe(@, ConfidenceBuckets, c.confidence[1])]
    ELSE m

\* a faulty variant, for comparison: the error counter is bumped whatever the outcome
CountErrorAlways(m, c) ==
    [m EXCEPT !.errors_total = Inc(@, <<"prediction_failed", c.model_version>>)]

\* lines 118-122
CountError(m, c) ==
    IF ~c.success
    THEN [m EXCEPT !.errors_total = Inc(@, <<"prediction_failed", c.model_version>>)]
    ELSE m

\* record_prediction, lines 85-122, run by one thread without interruption
RecordPrediction(m, c) ==
    CountError(ObserveConfidence(ObserveLatency(CountPrediction(m, c), c), c), c)

\* record_data_drift, lines 124-134
RecordDataDrift(m, feature_name, value) ==
    [m EXCEPT !.feature_distribution[feature_name] = Observe(@, FeatureBuckets, value)]

\* record_connection, lines 136-138
RecordConnection(m) == [m EXCEPT !.active_connections = @ + 1]

\* record_disconnection, lines 140-142
RecordDisconnection(m) == [m EXCEPT !.active_connections = @ - 1]

RECURSIVE SumOver(_, _)
SumOver(f, S) ==
    IF S = {} THEN 0
    ELSE LET k == CHOOSE x \in S : TRUE IN f[k] + SumOver(f, S \ {k})

\* path.startswith('/predict'), line 213
PredictPaths == {"/predict", "/predict/batch"}

Paths == PredictPaths \cup {"/health", "/metrics", "/models"}

\* the total of a labelled counter over all its label values
Total(counter) == SumOver(counter, DOMAIN counter)

\* a response's 'http.response.start' message, lines 207-227
SendWrapper(m, path, status_code, response_time) ==
    LET counted ==
            IF path \in PredictPaths THEN m             \* recorded by the endpoint
            ELSE IF path = "/health"
            THEN [m EXCEPT !.predictions_total =
                               Inc(@, <<"health_check",
                                        IF status_code < 400 THEN "success" ELSE "error">>)]
            ELSE m
    IN  IF path # "/metrics"
        THEN [counted EXCEPT !.inference_latency["api"] =
                                 Observe(@, LatencyBuckets, response_time)]
        ELSE counted

\* except Exception, lines 233-239
MiddlewareException(m) ==
    [m EXCEPT !.errors_total = Inc(@, <<"middleware_exception", "unknown">>)]

NoPrediction == PredictionCall(FALSE, 0, "", <<>>)

MetricsCall(op, c, raised) == [op |-> op, call |-> c, raised |-> raised]

Idle == [pc |-> "idle", call |-> NoPrediction]

InitMetrics ==
    /\ metrics = NewMetrics
    /\ callers = [p \in 1..MaxCallers |-> Idle]
    /\ inflight = <<>>
    /\ mlast = MetricsCall("", NoPrediction, FALSE)
    /\ calls = 0

(***************************************************************************)
(* S3ComplianceChecker (ejercicio1/scripts/compliance_checker.py).         *)
(* A message is the sequence of its words.                                 *)
(***************************************************************************)
\* the four flags, in the order of the checks list, lines 60-65
FlagOrder == <<"block_public_acls", "block_public_policy",
               "ignore_public_acls", "restrict_public_buckets">>

Flags == {FlagOrder[i] : i \in 1..Len(FlagOrder)}

EncryptionMsg == <<"Cifrado", "no", "habilitado">>

RECURSIVE FailedFlags(_, _)
FailedFlags(enabled, order) ==
    IF order = <<>> THEN <<>>
    ELSE (IF Head(order) \in enabled THEN <<>> ELSE <<Head(order)>>)
             \o FailedFlags(enabled, Tail(order))

\* f"Configuración de acceso público insuficiente: {', '.join(failed)}"
PublicAccessMsg(enabled) ==
    <<"Configuración", "de", "acceso", "público", "insuficiente:">>
        \o FailedFlags(enabled, FlagOrder)

PolicyMsg == <<"Política", "de", "bucket", "permite", "acceso", "público">>

\* str.lower(), word by word
Lower(msg) ==
    LET LowerWord(w) == CASE w = "Cifrado" -> "cifrado"
                          [] w = "Configuración" -> "configuración"
                          [] w = "Política" -> "política"
                          [] OTHER -> w
    IN  [i \in 1..Len(msg) |-> LowerWord(msg[i])]

\* sub in msg, for two strings
Contains(msg, sub) ==
    \E i \in 0..(Len(msg) - Len(sub)) : SubSeq(msg, i + 1, i + Len(sub)) = sub

\* x in lst
ListHas(lst, x) == \E i \in 1..Len(lst) : lst[i] = x

\* any("acceso público" in v.lower() for v in self.violations), line 181
MentionsPublicAccess(violations) ==
    \E i \in 1..Len(violations) : Contains(Lower(violations[i]), <<"acceso", "público">>)

\* A check returns True, False or None.
Compliant == "compliant"

NonCompliant == "non-compliant"

Indeterminate == "indeterminate"

NotRun == "not run"

CheckResult(result, violations) == [result |-> result, violations |-> violations]

\* check_encryption, lines 27-49, on a bucket whose encryption is "none"
\* (no configuration: ServerSideEncryptionConfigurationNotFoundError),
\* "norules" (a configuration without rules) or an algorithm
CheckEncryptionOf(b, acc, violations) ==
    IF acc.get_encryption = "denied"
    THEN CheckResult(Indeterminate, violations)                          \* line 49
    ELSE IF b.encryption \in {"none", "norules"}
    THEN CheckResult(NonCompliant, Append(violations, EncryptionMsg))    \* lines 40, 45
    ELSE CheckResult(Compliant, violations)

\* check_public_access, lines 51-80; without a public-access-block
\* configuration get_public_access_block raises a ClientError
CheckPublicAccessOf(b, acc, violations) ==
    IF acc.get_public_access = "denied" \/ ~b.pab.present
    THEN CheckResult(Indeterminate, violations)                          \* line 80
    ELSE IF b.pab.enabled = Flags
    THEN CheckResult(Compliant, violations)
    ELSE CheckResult(NonCompliant, Append(violations, PublicAccessMsg(b.pab.enabled)))

PrincipalStar == "\"Principal\":\"*\""

EffectAllow == "\"Effect\":\"Allow\""

\* check_bucket_policy, lines 82-100; a policy is the set of the two
\* fragments its text contains
CheckBucketPolicyOf(b, acc, violations) ==
    IF acc.get_policy = "denied"
    THEN CheckResult(Indeterminate, violations)                          \* line 100
    ELSE IF ~b.policy.present
    THEN CheckResult(Compliant, violations)                              \* NoSuchBucketPolicy
    ELSE IF PrincipalStar \in b.policy.text /\ EffectAllow \in b.policy.text
    THEN CheckResult(NonCompliant, Append(violations, PolicyMsg))
    ELSE CheckResult(Compliant, violations)

\* a faulty variant, for comparison: the block is written without restrict_public_buckets
PutPublicAccessBlockPartial(b) ==
    [b EXCEPT !.pab = [present |-> TRUE, enabled |-> Flags \ {"restrict_public_buckets"}]]

\* put_bucket_encryption with AES256, lines 105-116
PutBucketEncryption(b) == [b EXCEPT !.encryption = "AES256"]

\* put_public_access_block with the four flags True, lines 126-134
PutPublicAccessBlock(b) == [b EXCEPT !.pab = [present |-> TRUE, enabled |-> Flags]]

Bucket(enc, pab, policy) == [encryption |-> enc, pab |-> pab, policy |-> policy]

Buckets ==
    {Bucket(e, p, q) :
        e \in {"none", "norules", "AES256"},
        p \in {[present |-> FALSE, enabled |-> {}]}
                 \cup {[present |-> TRUE, enabled |-> f] : f \in SUBSET Flags},
        q \in {[present |-> FALSE, text |-> {}]}
                 \cup {[present |-> TRUE, text |-> t] : t \in SUBSET {PrincipalStar, EffectAllow}}}

S3Calls == {"get_encryption", "get_public_access", "get_policy",
            "put_encryption", "put_public_access"}

NoRun == [encryption |-> NotRun, public_access |-> NotRun, policy |-> NotRun]

\* what a run has shown so far: the three first checks' results, the list
\* printed by run_compliance_check, the writes issued, the re-run checks'
\* results, the bucket as it was found, and the exit status (-1: running)
NoReport ==
    [first |-> NoRun, printed |-> <<>>, writes |-> <<>>, again |-> NoRun,
     found |-> Bucket("none", [present |-> FALSE, enabled |-> {}],
                      [present |-> FALSE, text |-> {}]),
     exit |-> 0 - 1]

NewChecker(fix) == [pc |-> "check_encryption", fix_violations |-> fix,
                    violations |-> <<>>, fixes_applied |-> 0]

\* no checker runs
IdleChecker ==
    /\ bucket = Bucket("none", [present |-> FALSE, enabled |-> {}],
                       [present |-> FALSE, text |-> {}])
    /\ access = [c \in S3Calls |-> "ok"]
    /\ checker = [NewChecker(FALSE) EXCEPT !.pc = "idle"]
    /\ report = NoReport

(***************************************************************************)
(* The registry's operations as actions.                                   *)
(***************************************************************************)
\* ModelRegistry.__init__, lines 13-17
Construct ==
    /\ phase = "new"
    /\ phase' = "ready"
    /\ \E order \in GlobOrders(dir) :
          /\ LoadModels(order)
          /\ ret' = Scanned("__init__", FALSE, Printed(order))
    /\ UNCHANGED <<dir, steps, listing, resp, scan, metVars, s3Vars>>

\* check_for_new_models, lines 112-121
CheckForNewModels ==
    /\ phase = "ready"
    /\ steps < MaxSteps
    /\ steps' = steps + 1
    /\ \E order \in GlobOrders(dir) :
          /\ LoadModels(order)
          /\ ret' = Scanned("check_for_new_models", Len(models') > Len(models),
                            Printed(order))
    /\ UNCHANGED <<phase, dir, listing, resp, scan, metVars, s3Vars>>

\* the environment writes, replaces or deletes one artifact of the directory
DirChange(pool) ==
    /\ phase = "ready"
    /\ scan.pc = "idle"
    /\ dirExists
    /\ steps < MaxSteps
    /\ steps' = steps + 1
    /\ \E s \in Stems, a \in pool :
          /\ a # dir[s]
          /\ dir' = [dir EXCEPT ![s] = a]
    /\ ret' = NoResult("dir_change")
    /\ UNCHANGED <<phase, dirExists, models, metadata, heap, now, listing, resp, scan, metVars, s3Vars>>

\* no version, a version that may be registered, one that never is
LookupArgs == {None, "v1", "v9"}

CallGetModel ==
    /\ phase = "ready"
    /\ \E v \in LookupArgs : ret' = GetModel(models, metadata, v)
    /\ UNCHANGED <<phase, dirExists, dir, models, metadata, heap, now, steps,
                   listing, resp, scan, metVars, s3Vars>>

CallGetLatestModel ==
    /\ phase = "ready"
    /\ ret' = GetLatestModel(metadata)
    /\ UNCHANGED <<phase, dirExists, dir, models, metadata, heap, now, steps,
                   listing, resp, scan, metVars, s3Vars>>


\* no check_for_new_models call is in progress
NoScan == [pc |-> "idle", pending |-> <<>>, held |-> <<>>, initial_count |-> 0,
           printed |-> NoPrint]

\* before ModelRegistry(models_dir): some directory on disk, or none
InitRegistry(pool) ==
    /\ phase = "new"
    /\ dirExists \in BOOLEAN
    /\ dir \in (IF dirExists THEN [Stems -> pool] ELSE {[s \in Stems |-> Absent]})
    /\ models = <<>>
    /\ metadata = <<>>
    /\ heap = <<>>
    /\ now = 10
    /\ ret = NoResult("")
    /\ steps = 0
    /\ listing = <<>>
    /\ resp = NoResp
    /\ scan = NoScan

Init == InitRegistry(ArtifactsWith(FileStamps, {<<>>})) /\ InitMetrics /\ IdleChecker

Next ==
    \/ Construct
    \/ CheckForNewModels
    \/ DirChange(ArtifactsWith({NoStamp}, {<<>>}))
    \/ CallGetModel
    \/ CallGetLatestModel

Spec == Init /\ [][Next]_vars

(***************************************************************************)
(* The inference service: the registry is constructed, then requests call  *)
(* predict and list_models, and callers use what they are given.           *)
(***************************************************************************)
PredictRequests ==
    {PredictRequest(v, f, r, strict) :
        v \in LookupArgs, f \in {"ok", "raises"},
        r \in {"ok", "predict_raises", "proba_raises"}, strict \in BOOLEAN}

\* POST /predict
CallPredict ==
    /\ phase = "ready"
    /\ \E req \in PredictRequests : resp' = Predict(models, metadata, req)
    /\ ret' = NoResult("predict")
    /\ UNCHANGED <<phase, dirExists, dir, models, metadata, heap, now, steps,
                   listing, scan, metVars, s3Vars>>

\* get_available_models, the caller keeps the list
CallGetAvailableModels ==
    /\ phase = "ready"
    /\ listing' = GetAvailableModels(metadata, heap)
    /\ ret' = NoResult("get_available_models")
    /\ UNCHANGED <<phase, dirExists, dir, models, metadata, heap, now, steps,
                   resp, scan, metVars, s3Vars>>

\* the caller drops the first record of its list: lst.pop(0)
CallerPops ==
    /\ listing # <<>>
    /\ listing' = Tail(listing)
    /\ ret' = NoResult("caller")
    /\ UNCHANGED <<phase, dirExists, dir, models, metadata, heap, now, steps,
                   resp, scan, metVars, s3Vars>>

\* the caller overwrites a field of a record: lst[i]['version'] = 'x'
CallerSetsVersion ==
    /\ \E i \in 1..Len(listing) :
          /\ listing[i].version # "x"
          /\ listing' = [listing EXCEPT ![i].version = "x"]
    /\ ret' = NoResult("caller")
    /\ UNCHANGED <<phase, dirExists, dir, models, metadata, heap, now, steps,
                   resp, scan, metVars, s3Vars>>

\* the caller appends to a record's features: lst[i]['features'].append('x')
CallerAppendsFeature ==
    /\ \E i \in 1..Len(listing) :
          LET f == listing[i].features
          IN  /\ ~ListHas(Contents(f, heap), "x")
              /\ IF f.ref # NoRef
                 THEN /\ heap' = [heap EXCEPT ![f.ref] = Append(@, "x")]
                      /\ UNCHANGED listing
                 ELSE /\ listing' = [listing EXCEPT ![i].features.own = Append(@, "x")]
                      /\ UNCHANGED heap
    /\ ret' = NoResult("caller")
    /\ UNCHANGED <<phase, dirExists, dir, models, metadata, now, steps,
                   resp, scan, metVars, s3Vars>>

InitService ==
    /\ InitRegistry(ArtifactsWith(FileStamps, {<<>>})
                       \cup {Artifact("ok", "ok", NumberVersion, NoStamp, <<>>)})
    /\ InitMetrics
    /\ IdleChecker

NextService ==
    \/ Construct
    \/ CallPredict

SpecService == InitService /\ [][NextService]_vars

InitSnapshot ==
    /\ InitRegistry(ArtifactsWith({NoStamp, StrStamp(ShortFormat(9), 9)}, FeatureOptions))
    /\ InitMetrics
    /\ IdleChecker

NextSnapshot ==
    \/ Construct
    \/ CallGetAvailableModels
    \/ CallerPops
    \/ CallerSetsVersion
    \/ CallerAppendsFeature

SpecSnapshot == InitSnapshot /\ [][NextSnapshot]_vars

(***************************************************************************)
(* check_for_new_models running in one thread, statement by statement,     *)
(* while other threads call the lookups.                                   *)
(***************************************************************************)
\* lines 114-115 and 21-26: the count is read, the directory is listed
BeginRefresh ==
    /\ phase = "ready"
    /\ scan.pc = "idle"
    /\ steps < MaxSteps
    /\ steps' = steps + 1
    /\ IF dirExists
       THEN /\ \E order \in GlobOrders(dir) :
                 scan' = [NoScan EXCEPT !.pc = "scan", !.pending = order,
                                        !.initial_count = Len(models)]
            /\ UNCHANGED dirExists
       ELSE /\ dirExists' = TRUE
            /\ scan' = [NoScan EXCEPT !.pc = "scan", !.initial_count = Len(models)]
    /\ ret' = NoResult("begin_refresh")
    /\ UNCHANGED <<phase, dir, models, metadata, heap, now, listing, resp, metVars, s3Vars>>

\* lines 29-49 for the next file: up to and including self.models[...] = model
LoadStep ==
    /\ scan.pc = "scan"
    /\ scan.pending # <<>>
    /\ LET stem  == Head(scan.pending)
           art   == dir[stem]
           model == PickleLoad(stem, art)
           md    == ReadMetadata(stem, art, now)
       IN  IF model.raised \/ md.raised \/ md.value[1].verKind # "str"
           THEN /\ scan' = [scan EXCEPT !.pending = Tail(@), !.printed.warnings = @ + 1]
                /\ now' = Tick(Self, art).now
                /\ UNCHANGED <<models, heap>>
           ELSE LET reg == StoreModel(Tick(Self, art), model.value[1], md.value[1])
                IN  /\ models' = reg.models
                    /\ heap' = reg.heap
                    /\ now' = reg.now
                    /\ scan' = [scan EXCEPT !.pc = "store", !.held = <<md.value[1]>>]
    /\ ret' = NoResult("load_step")
    /\ UNCHANGED <<phase, dirExists, dir, metadata, steps, listing, resp, metVars, s3Vars>>

\* lines 50-52 for that file: self.metadata[...] = metadata, print
StoreStep ==
    /\ scan.pc = "store"
    /\ LET reg == StoreMetadata(Self, scan.held[1])
       IN  metadata' = reg.metadata
    /\ scan' = [scan EXCEPT !.pc = "scan", !.pending = Tail(@), !.held = <<>>,
                            !.printed.loaded = @ + 1]
    /\ ret' = NoResult("store_step")
    /\ UNCHANGED <<phase, dirExists, dir, models, heap, now, steps, listing, resp,
                   metVars, s3Vars>>

\* line 117: return len(self.models) > initial_count
EndRefresh ==
    /\ scan.pc = "scan"
    /\ scan.pending = <<>>
    /\ ret' = Scanned("check_for_new_models", Len(models) > scan.initial_count, scan.printed)
    /\ scan' = NoScan
    /\ UNCHANGED <<phase, dirExists, dir, models, metadata, heap, now, steps, listing, resp,
                   metVars, s3Vars>>

InitRefresh ==
    /\ InitRegistry(ArtifactsWith({NoStamp}, {<<>>}))
    /\ InitMetrics
    /\ IdleChecker

NextRefresh ==
    \/ Construct
    \/ DirChange(ArtifactsWith({NoStamp}, {<<>>}))
    \/ BeginRefresh
    \/ LoadStep
    \/ StoreStep
    \/ EndRefresh
    \/ CallGetModel
    \/ CallGetLatestModel
    \/ CallGetAvailableModels

SpecRefresh == InitRefresh /\ [][NextRefresh]_vars

(***************************************************************************)
(* The metrics object's operations as actions: each call runs to its end.  *)
(***************************************************************************)
CallVersions == {"v1", "unknown"}

PredictionCalls ==
    {PredictionCall(s, t, v, c) :
        s \in BOOLEAN, t \in {700}, v \in CallVersions, c \in {<<>>, <<80>>}}

CallRecordPrediction ==
    /\ calls < MaxCalls
    /\ \E c \in PredictionCalls :
          /\ metrics' = RecordPrediction(metrics, c)
          /\ mlast' = MetricsCall("record_prediction", c, FALSE)
    /\ calls' = calls + 1
    /\ UNCHANGED <<callers, inflight, regVars, s3Vars>>

CallRecordDataDrift ==
    /\ calls < MaxCalls
    /\ \E f \in FeatureNames, value \in {7} :
          metrics' = RecordDataDrift(metrics, f, value)
    /\ mlast' = MetricsCall("record_data_drift", NoPrediction, FALSE)
    /\ calls' = calls + 1
    /\ UNCHANGED <<callers, inflight, regVars, s3Vars>>

CallRecordConnection ==
    /\ calls < MaxCalls
    /\ metrics' = RecordConnection(metrics)
    /\ mlast' = MetricsCall("record_connection", NoPrediction, FALSE)
    /\ calls' = calls + 1
    /\ UNCHANGED <<callers, inflight, regVars, s3Vars>>

CallRecordDisconnection ==
    /\ calls < MaxCalls
    /\ metrics' = RecordDisconnection(metrics)
    /\ mlast' = MetricsCall("record_disconnection", NoPrediction, FALSE)
    /\ calls' = calls + 1
    /\ UNCHANGED <<callers, inflight, regVars, s3Vars>>

\* update_resource_usage, lines 144-153: model_memory_usage has a label and
\* .set() is called on it without .labels(): the client library raises
\* ValueError before anything is set
CallUpdateResourceUsage ==
    /\ calls < MaxCalls
    /\ mlast' = MetricsCall("update_resource_usage", NoPrediction, TRUE)
    /\ calls' = calls + 1
    /\ UNCHANGED <<metrics, callers, inflight, regVars, s3Vars>>

(***************************************************************************)
(* MetricsMiddleware.__call__, lines 196-242: a request enters, the app    *)
(* starts its response, the app returns or raises.                         *)
(***************************************************************************)
\* scope['type'] != 'http', lines 197-199
MwPassThrough ==
    /\ calls < MaxCalls
    /\ mlast' = MetricsCall("passthrough", NoPrediction, FALSE)
    /\ calls' = calls + 1
    /\ UNCHANGED <<metrics, callers, inflight, regVars, s3Vars>>

\* lines 201-205
MwEnter ==
    /\ calls < MaxCalls
    /\ \E path \in Paths : inflight' = Append(inflight, [path |-> path, started |-> FALSE])
    /\ metrics' = RecordConnection(metrics)
    /\ mlast' = MetricsCall("request", NoPrediction, FALSE)
    /\ calls' = calls + 1
    /\ UNCHANGED <<callers, regVars, s3Vars>>

\* send_wrapper with 'http.response.start', lines 207-229
MwResponseStart ==
    /\ \E i \in 1..Len(inflight), status_code \in {200, 503}, rt \in {3000} :
          /\ ~inflight[i].started
          /\ metrics' = SendWrapper(metrics, inflight[i].path, status_code, rt)
          /\ inflight' = [inflight EXCEPT ![i].started = TRUE]
    /\ mlast' = MetricsCall("response_start", NoPrediction, FALSE)
    /\ UNCHANGED <<callers, calls, regVars, s3Vars>>

\* the app returned: finally, lines 240-242
MwReturn ==
    /\ \E i \in 1..Len(inflight) :
          /\ metrics' = RecordDisconnection(metrics)
          /\ inflight' = RemoveAt(inflight, i)
    /\ mlast' = MetricsCall("response_end", NoPrediction, FALSE)
    /\ UNCHANGED <<callers, calls, regVars, s3Vars>>

\* the app raised: except and finally, lines 233-242
MwRaise ==
    /\ \E i \in 1..Len(inflight) :
          /\ metrics' = RecordDisconnection(MiddlewareException(metrics))
          /\ inflight' = RemoveAt(inflight, i)
    /\ mlast' = MetricsCall("response_end", NoPrediction, TRUE)
    /\ UNCHANGED <<callers, calls, regVars, s3Vars>>

\* the registry plays no part here: it stays as constructed on no directory
IdleRegistry ==
    /\ InitRegistry({Absent})
    /\ ~dirExists

InitMetricsSpec == IdleRegistry /\ InitMetrics /\ IdleChecker

NextMetrics ==
    \/ CallRecordPrediction
    \/ CallRecordDataDrift
    \/ CallRecordConnection
    \/ CallRecordDisconnection
    \/ CallUpdateResourceUsage
    \/ MwPassThrough
    \/ MwEnter
    \/ MwResponseStart
    \/ MwReturn
    \/ MwRaise

SpecMetrics == InitMetricsSpec /\ [][NextMetrics]_vars

(***************************************************************************)
(* record_prediction called by several threads at once (the endpoint       *)
(* schedules it as a background task): each statement of the method is a   *)
(* step, and the steps of different threads interleave.                    *)
(***************************************************************************)
ThreadCalls ==
    {PredictionCall(s, 700, v, <<80>>) : s \in BOOLEAN, v \in CallVersions}

\* a thread enters record_prediction
Begin(p) ==
    /\ callers[p].pc = "idle"
    /\ calls < MaxCalls
    /\ \E c \in ThreadCalls : callers' = [callers EXCEPT ![p] = [pc |-> "count", call |-> c]]
    /\ calls' = calls + 1
    /\ mlast' = MetricsCall("record_prediction", callers'[p].call, FALSE)
    /\ UNCHANGED <<metrics, inflight, regVars, s3Vars>>

\* lines 99-105
StepCount(p) ==
    /\ callers[p].pc = "count"
    /\ metrics' = CountPrediction(metrics, callers[p].call)
    /\ callers' = [callers EXCEPT ![p].pc = IF callers[p].call.success THEN "latency" ELSE "error"]
    /\ UNCHANGED <<inflight, mlast, calls, regVars, s3Vars>>

\* lines 108-111
StepLatency(p) ==
    /\ callers[p].pc = "latency"
    /\ metrics' = ObserveLatency(metrics, callers[p].call)
    /\ callers' = [callers EXCEPT ![p].pc = "confidence"]
    /\ UNCHANGED <<inflight, mlast, calls, regVars, s3Vars>>

\* lines 113-115, and the return
StepConfidence(p) ==
    /\ callers[p].pc = "confidence"
    /\ metrics' = ObserveConfidence(metrics, callers[p].call)
    /\ callers' = [callers EXCEPT ![p] = Idle]
    /\ UNCHANGED <<inflight, mlast, calls, regVars, s3Vars>>

\* lines 118-122, and the return
StepError(p) ==
    /\ callers[p].pc = "error"
    /\ metrics' = CountError(metrics, callers[p].call)
    /\ callers' = [callers EXCEPT ![p] = Idle]
    /\ UNCHANGED <<inflight, mlast, calls, regVars, s3Vars>>

NextThreads ==
    \E p \in 1..MaxCallers :
        \/ Begin(p)
        \/ StepCount(p)
        \/ StepLatency(p)
        \/ StepConfidence(p)
        \/ StepError(p)

SpecThreads == InitMetricsSpec /\ [][NextThreads]_vars

(***************************************************************************)
(* One run of the compliance checker: main() builds the checker and calls  *)
(* run_compliance_check; each method called is a step.                     *)
(***************************************************************************)
Goto(pc) == [checker EXCEPT !.pc = pc]

\* self.check_encryption(), lines 147 and 191
CheckEncryption ==
    /\ checker.pc \in {"check_encryption", "recheck_encryption"}
    /\ LET r == CheckEncryptionOf(bucket, access, checker.violations)
       IN  IF checker.pc = "check_encryption"
           THEN /\ checker' = [checker EXCEPT !.violations = r.violations,
                                              !.pc = "check_public_access"]
                /\ report' = [report EXCEPT !.first.encryption = r.result]
           ELSE /\ checker' = [checker EXCEPT !.violations = r.violations,
                                              !.pc = "recheck_public_access"]
                /\ report' = [report EXCEPT !.again.encryption = r.result]
    /\ UNCHANGED <<bucket, access, regVars, metVars>>

\* self.check_public_access(), lines 148 and 192; after the second one
\* _auto_fix and run_compliance_check return (False) and main exits with 1
CheckPublicAccess ==
    /\ checker.pc \in {"check_public_access", "recheck_public_access"}
    /\ LET r == CheckPublicAccessOf(bucket, access, checker.violations)
       IN  IF checker.pc = "check_public_access"
           THEN /\ checker' = [checker EXCEPT !.violations = r.violations,
                                              !.pc = "check_bucket_policy"]
                /\ report' = [report EXCEPT !.first.public_access = r.result]
           ELSE /\ checker' = [checker EXCEPT !.violations = r.violations,
                                              !.pc = "exit"]
                /\ report' = [report EXCEPT !.again.public_access = r.result,
                                            !.exit = 1]
    /\ UNCHANGED <<bucket, access, regVars, metVars>>

\* self.check_bucket_policy(), line 149
CheckBucketPolicy ==
    /\ checker.pc = "check_bucket_policy"
    /\ LET r == CheckBucketPolicyOf(bucket, access, checker.violations)
       IN  /\ checker' = [checker EXCEPT !.violations = r.violations, !.pc = "report"]
           /\ report' = [report EXCEPT !.first.policy = r.result]
    /\ UNCHANGED <<bucket, access, regVars, metVars>>

\* lines 151-171 and main's sys.exit(0 if success else 1), line 230
Report ==
    /\ checker.pc = "report"
    /\ IF checker.violations = <<>>
       THEN /\ checker' = Goto("exit")                      \* return True
            /\ report' = [report EXCEPT !.printed = checker.violations, !.exit = 0]
       ELSE IF checker.fix_violations
       THEN /\ checker' = Goto("fix_encryption")            \* self._auto_fix()
            /\ report' = [report EXCEPT !.printed = checker.violations]
       ELSE /\ checker' = Goto("exit")                      \* return False
            /\ report' = [report EXCEPT !.printed = checker.violations, !.exit = 1]
    /\ UNCHANGED <<bucket, access, regVars, metVars>>

Write(call, ok) == [call |-> call, ok |-> ok]

\* _auto_fix, lines 177-179, with fix_encryption, lines 102-121
AutoFixEncryption ==
    /\ checker.pc = "fix_encryption"
    /\ IF ListHas(checker.violations, EncryptionMsg)
       THEN IF access.put_encryption = "ok"
            THEN /\ bucket' = PutBucketEncryption(bucket)
                 /\ checker' = [checker EXCEPT !.fixes_applied = @ + 1,
                                               !.pc = "fix_public_access"]
                 /\ report' = [report EXCEPT !.writes = Append(@, Write("put_encryption", TRUE))]
            ELSE /\ checker' = Goto("fix_public_access")
                 /\ report' = [report EXCEPT !.writes = Append(@, Write("put_encryption", FALSE))]
                 /\ UNCHANGED bucket
       ELSE /\ checker' = Goto("fix_public_access")
            /\ UNCHANGED <<bucket, report>>
    /\ UNCHANGED <<access, regVars, metVars>>

\* _auto_fix, lines 181-183, with fix_public_access, lines 123-139
AutoFixPublicAccess ==
    /\ checker.pc = "fix_public_access"
    /\ IF MentionsPublicAccess(checker.violations)
       THEN IF access.put_public_access = "ok"
            THEN /\ bucket' = PutPublicAccessBlock(bucket)
                 /\ checker' = [checker EXCEPT !.fixes_applied = @ + 1, !.pc = "verify"]
                 /\ report' = [report EXCEPT
                                  !.writes = Append(@, Write("put_public_access", TRUE))]
            ELSE /\ checker' = Goto("verify")
                 /\ report' = [report EXCEPT
                                  !.writes = Append(@, Write("put_public_access", FALSE))]
                 /\ UNCHANGED bucket
       ELSE /\ checker' = Goto("verify")
            /\ UNCHANGED <<bucket, report>>
    /\ UNCHANGED <<access, regVars, metVars>>

\* _auto_fix, lines 185-190: the list is emptied before the checks re-run
AutoFixVerify ==
    /\ checker.pc = "verify"
    /\ IF checker.fixes_applied > 0
       THEN /\ checker' = [checker EXCEPT !.violations = <<>>, !.pc = "recheck_encryption"]
            /\ UNCHANGED report
       ELSE /\ checker' = Goto("exit")
            /\ report' = [report EXCEPT !.exit = 1]
    /\ UNCHANGED <<bucket, access, regVars, metVars>>

InitCompliance ==
    /\ IdleRegistry
    /\ InitMetrics
    /\ bucket \in Buckets
    /\ access \in [S3Calls -> {"ok", "denied"}]
    /\ \E fix \in BOOLEAN : checker = NewChecker(fix)
    /\ report = [NoReport EXCEPT !.found = bucket]

NextCompliance ==
    \/ CheckEncryption
    \/ CheckPublicAccess
    \/ CheckBucketPolicy
    \/ Report
    \/ AutoFixEncryption
    \/ AutoFixPublicAccess
    \/ AutoFixVerify

SpecCompliance == InitCompliance /\ [][NextCompliance]_vars

(***************************************************************************)
(* Claims about the registry, checked under Spec.                          *)
(***************************************************************************)
\* An artifact is valid when its pickle loads and its metadata is absent
\* (defaults apply) or well formed with a 'version'; corrupt otherwise.
ValidArtifact(a) == a.pkl = "ok" /\ a.meta \in {"none", "ok"}

CorruptArtifact(a) == a.pkl # "absent" /\ ~ValidArtifact(a)

NValid(d) == Cardinality({s \in Stems : ValidArtifact(d[s])})

MCorrupt(d) == Cardinality({s \in Stems : CorruptArtifact(d[s])})

\* the version a valid artifact declares: its metadata's, or the file's base name
DeclaredVersion(s, a) == IF a.meta = "none" THEN s ELSE a.version

ValidVersions(d) == {DeclaredVersion(s, d[s]) : s \in {x \in Stems : ValidArtifact(d[x])}}

\* a scan has just run: dir is the directory it scanned
JustScanned == ret.op \in {"__init__", "check_for_new_models"}

\* C1 as stated: constructing the registry on a directory of N valid and M
\* corrupt artifacts leaves exactly N entries, prints N loaded lines and M
\* warnings.
C1_ExactlyNEntries ==
    ret.op = "__init__" =>
        /\ ~ret.raised
        /\ Len(models) = NValid(dir)
        /\ ret.printed.loaded = NValid(dir)
        /\ ret.printed.warnings = MCorrupt(dir)

\* C1 amended: every scan of N valid and M corrupt artifacts ends without
\* raising, prints exactly N loaded lines and M warnings and registers every
\* version a valid artifact declares; construction leaves one entry per
\* distinct declared version (N entries only when the N versions differ).
C1_LoadIsolatesFailures ==
    JustScanned =>
        /\ ~ret.raised
        /\ ret.printed.loaded = NValid(dir)
        /\ ret.printed.warnings = MCorrupt(dir)
        /\ ValidVersions(dir) \subseteq DictKeys(models)
        /\ ret.op = "__init__" =>
              /\ DictKeys(models) = ValidVersions(dir)
              /\ Len(models) = Cardinality(ValidVersions(dir))

C1_Witness ==
    /\ ret.op = "__init__"
    /\ NValid(dir) = 1
    /\ MCorrupt(dir) = 1
    /\ Len(models) = 1
    /\ ret.printed = [loaded |-> 1, warnings |-> 1]

\* the instant an entry's loaded_at denotes
LoadedAt(md) == md.stamp.time

\* C2: on a non-empty registry get_model() returns the entry whose loadedAt
\* is the maximum among the registered entries, whatever the format of their
\* loaded_at.
C2_LatestIsMaxLoadedAt ==
    (ret.op = "get_model" /\ ret.arg = None /\ models # <<>> /\ ~ret.raised) =>
        /\ ret.found
        /\ \A i \in 1..Len(metadata) : LoadedAt(metadata[i][2]) <= LoadedAt(ret.meta)

\* C3: a lookup miss is a value: get_model(v) with v not registered, and
\* get_model() / get_latest_model() on an empty registry, return not-found
\* without raising, and no lookup changes the registry.
IsLookup(r) == r.op \in {"get_model", "get_latest_model"}

IsMiss(r, ms, md) ==
    \/ r.op = "get_model" /\ r.arg # None /\ r.arg \notin DictKeys(ms)
    \/ r.op = "get_model" /\ ms = <<>>
    \/ r.op = "get_latest_model" /\ md = <<>>

C3_MissIsNotFound ==
    [][IsLookup(ret') =>
          /\ models' = models /\ metadata' = metadata /\ heap' = heap
          /\ IsMiss(ret', models, metadata) =>
                (~ret'.raised /\ ~ret'.found /\ ret'.model = "" /\ ret'.meta = NoMeta)]_vars

C3_Witness ==
    /\ ret.op = "get_model"
    /\ ret.arg = "v9"
    /\ models # <<>>
    /\ ~ret.found
    /\ ~ret.raised

\* C13: no step removes a version from the registry, and a
\* check_for_new_models call returns true exactly when the registry holds
\* more entries after the scan than before it, which is when the directory
\* held a valid artifact whose version was not registered.
C13_RefreshAdditive ==
    [][/\ DictKeys(models) \subseteq DictKeys(models')
       /\ DictKeys(metadata) \subseteq DictKeys(metadata')
       /\ ret'.op = "check_for_new_models" =>
             /\ ~ret'.raised
             /\ ret'.grew <=> Len(models') > Len(models)
             /\ ret'.grew <=> ~(ValidVersions(dir) \subseteq DictKeys(models))]_vars

\* a refresh that grew the registry and kept an entry no file declares any more
C13_Witness ==
    /\ ret.op = "check_for_new_models"
    /\ ret.grew
    /\ Len(models) = 2
    /\ ~(DictKeys(models) \subseteq ValidVersions(dir))

\* the metadata md is the one _load_models builds for the artifact a of stem s
FromArtifact(md, s, a) ==
    /\ md.version = DeclaredVersion(s, a)
    /\ IF a.meta = "none"
       THEN md.file = s /\ md.stamp.kind = "str"
       ELSE md.file = "" /\ md.stamp = a.stamp

\* the positions in a scan order of the valid artifacts that declare version k
Declaring(d, order, k) ==
    {i \in 1..Len(order) :
        ValidArtifact(d[order[i]]) /\ DeclaredVersion(order[i], d[order[i]]) = k}

AllReturned == \A p \in 1..MaxCallers : callers[p].pc = "idle"

\* C4: when record_prediction has been invoked F times by concurrent
\* threads and every call has returned, predictions_total summed over all
\* its labels is exactly F, under every interleaving (checked under
\* SpecThreads; before the calls return, the total is F less the calls that
\* have not yet reached the increment).
C4_NoLostIncrement ==
    /\ AllReturned => Total(metrics.predictions_total) = calls
    /\ Total(metrics.predictions_total)
           = calls - Cardinality({p \in 1..MaxCallers : callers[p].pc = "count"})

C4_Witness ==
    /\ AllReturned
    /\ calls >= 3
    /\ metrics.predictions_total[<<"v1", "success">>] >= 1
    /\ metrics.predictions_total[<<"v1", "error">>] >= 2

\* C5: the active_connections gauge is never negative (checked under
\* SpecMetrics).
C5_NeverNegative == metrics.active_connections >= 0

\* C6: record_prediction(success=False, t, v, c) adds exactly 1 to
\* predictions_total[v, "error"] and to errors_total["prediction_failed", v]
\* and changes no other metric; with success=True errors_total is unchanged
\* (checked under SpecMetrics).
C6_FailureFrame ==
    [][(mlast'.op = "record_prediction" /\ calls' = calls + 1) =>
          LET c == mlast'.call
          IN  IF ~c.success
              THEN metrics' =
                     [metrics EXCEPT
                        !.predictions_total[<<c.model_version, "error">>] = @ + 1,
                        !.errors_total[<<"prediction_failed", c.model_version>>] = @ + 1]
              ELSE metrics'.errors_total = metrics.errors_total]_vars

C6_Witness ==
    /\ mlast.op = "record_prediction"
    /\ ~mlast.call.success
    /\ mlast.call.model_version = "v1"
    /\ metrics.predictions_total[<<"v1", "error">>] = 1
    /\ metrics.errors_total[<<"prediction_failed", "v1">>] = 1
    /\ metrics.inference_latency["v1"] = EmptyHistogram(LatencyBuckets)
    /\ metrics.inference_latency["api"] # EmptyHistogram(LatencyBuckets)

(***************************************************************************)
(* Claims about the compliance checker, checked under SpecCompliance.      *)
(***************************************************************************)
Exited == checker.pc = "exit"

FullyCompliant ==
    /\ report.first.encryption = Compliant
    /\ report.first.public_access = Compliant
    /\ report.first.policy = Compliant

\* C7: the run exits with status 0 if and only if all three checks returned
\* compliant; a run with an indeterminate check does not report success.
C7_ExitZeroIffCompliant == Exited => (report.exit = 0 <=> FullyCompliant)

\* the scenario of C8: no encryption, the four public-access-block flags
\* off, --fix given, the bucket's configuration readable and writable
Unprotected(b) ==
    /\ b.encryption = "none"
    /\ b.pab = [present |-> TRUE, enabled |-> {}]

RemediationScenario ==
    /\ Unprotected(report.found)
    /\ checker.fix_violations
    /\ \A c \in S3Calls \ {"get_policy"} : access[c] = "ok"

\* C8: in that scenario the list first printed holds the encryption and the
\* public-access violation, the two re-run checks return compliant and the
\* run ends with an empty violation list.
C8_RemediationClears ==
    (Exited /\ RemediationScenario) =>
        /\ ListHas(report.printed, EncryptionMsg)
        /\ ListHas(report.printed, PublicAccessMsg({}))
        /\ report.again.encryption = Compliant
        /\ report.again.public_access = Compliant
        /\ checker.violations = <<>>

C8_Witness ==
    /\ Exited
    /\ RemediationScenario
    /\ Len(report.writes) = 2
    /\ bucket.encryption = "AES256"
    /\ bucket.pab.enabled = Flags
    /\ checker.violations = <<>>

\* the put calls of the given name the run has issued
Issued(call) == {i \in 1..Len(report.writes) : report.writes[i].call = call}

\* C14: with --fix, the run issues the encryption write exactly when the
\* encryption check reported non-compliant and the public-access-block write
\* exactly when the public-access check reported non-compliant, each at most
\* once, and re-runs the encryption and public-access checks only.
C14_FixesWhatWasDetected ==
    (Exited /\ checker.fix_violations) =>
        /\ Issued("put_encryption") # {} <=> report.first.encryption = NonCompliant
        /\ Issued("put_public_access") # {} <=> report.first.public_access = NonCompliant
        /\ Cardinality(Issued("put_encryption")) <= 1
        /\ Cardinality(Issued("put_public_access")) <= 1
        /\ report.again.policy = NotRun

(***************************************************************************)
(* Claims about the /predict handler, checked under SpecService.           *)
(***************************************************************************)
Answered == resp.status # 0

\* the request's version does not resolve: empty registry or unknown version
ResolutionMiss ==
    \/ models = <<>>
    \/ resp.version # None /\ ~DictHas(models, resp.version)

\* the request resolves to a model (the lookup neither misses nor raises)
Resolves == ~ResolutionMiss /\ ~GetModel(models, metadata, resp.version).raised

\* C9: a resolution miss is answered 404, a failure building the input frame
\* 400, an exception of predict / predict_proba 500, no failure of one kind
\* has the status of another, and a 200 carries the version of the model that
\* was resolved.
C9_ErrorKinds ==
    Answered =>
        LET got == GetModel(models, metadata, resp.version)
        IN  /\ ResolutionMiss <=> resp.status = 404
            /\ (Resolves /\ resp.frame = "raises") <=> resp.status = 400
            /\ (Resolves /\ resp.frame = "ok" /\ resp.run # "ok") => resp.status = 500
            /\ resp.status = 200 => (Resolves /\ resp.frame = "ok" /\ resp.run = "ok")
            /\ (Resolves /\ resp.frame = "ok" /\ resp.run = "ok" /\ IsStr(got.meta.version))
                  => resp.status = 200
            /\ resp.status = 200 =>
                  /\ resp.model = got.model
                  /\ resp.model_version = VersionText(got.meta.version)
                  /\ DictHas(models, got.meta.version)
                  /\ DictGet(models, got.meta.version) = resp.model
                  /\ resp.version # None => resp.model_version = resp.version

C9_Witness ==
    /\ Answered
    /\ Len(models) = 2
    /\ resp.version = "v9"
    /\ resp.status = 404
    /\ resp.frame = "raises"
    /\ resp.run = "predict_raises"

\* C11: every /predict request adds record_prediction exactly once:
\* success=True with the resolved model's version exactly when a prediction
\* response is returned, success=False otherwise; never both, never none.
C11_RecordedExactlyOnce ==
    Answered =>
        /\ Len(resp.tasks) = 1
        /\ resp.tasks[1].success <=> resp.status = 200
        /\ resp.status = 200 =>
              resp.tasks[1].model_version
                  = GetModel(models, metadata, resp.version).meta.version

(***************************************************************************)
(* Claims about a refresh running beside readers, checked under            *)
(* SpecRefresh.                                                            *)
(***************************************************************************)
\* C12: a lookup that runs while _load_models is between two statements
\* sees every version with both its model and its metadata or with neither,
\* and does not raise.
C12_NoHalfUpdate ==
    ret.op \in {"get_model", "get_latest_model", "get_available_models"} =>
        /\ ~ret.raised
        /\ DictKeys(models) = DictKeys(metadata)

(***************************************************************************)
(* Claims about get_available_models, checked under SpecSnapshot.          *)
(***************************************************************************)
\* C10: nothing a caller does to the list it was given, to one of its
\* records or to a record's features list changes the registry's metadata
\* or what get_model / get_available_models return afterwards.
C10_SnapshotCopy ==
    [][ret'.op = "caller" =>
          /\ MetadataView(metadata', heap') = MetadataView(metadata, heap)
          /\ ListingView(metadata', heap') = ListingView(metadata, heap)
          /\ \A v \in LookupArgs :
                GetModel(models', metadata', v) = GetModel(models, metadata, v)]_vars

====
